---- MODULE Spec2Model ----
(***************************************************************************)
(* Model of damirah/semantometrics: the semantic distance engine           *)
(* (contribution/dist_calculator.py), the distance cache and contribution  *)
(* formula (contribution/contrib_calculator.py) and the orchestration of   *)
(* run.py.                                                                 *)
(*                                                                         *)
(* Numbers.  A distance is a float in [0, 1]; here it is an integer number *)
(* of 1/Scale units (fixed point, rounded towards 1).  A mean or a          *)
(* contribution is an exact fraction <<n, d>> in lowest terms.             *)
(* Texts.  A text is the sequence of its word tokens; '' is << >>.  A value *)
(* of the document map is None (also standing for numpy.nan) or <<text>>.  *)
(***************************************************************************)
EXTENDS Integers, Sequences, FiniteSets, TLC

\* ------------------------------------------------------------------ bounds
NumIdx == 3
MaxLen == 2
Scale == 100
EngineCallCap == 2
NumThreads == 2
MaxRows == 3

Idx == 1..NumIdx

\* Python's None, for a distance, a mean, a contribution or a text: a value v
\* that is not None is written <<v>> (a fraction <<n, d>> as it stands).
None == << >>
Some(v) == <<v>>

\* How a call ended: it returned, or it raised.
Returned == "returned"
TypeError == "TypeError"
KeyError == "KeyError"

\* ------------------------------------------------------- exact fractions
RECURSIVE GCD(_, _)
GCD(a, b) == IF b = 0 THEN a ELSE GCD(b, a % b)

Frac(n, d) ==
    IF n = 0 THEN <<0, 1>>
    ELSE LET g == GCD(n, d) IN <<n \div g, d \div g>>

FracMul(x, y) == Frac(x[1] * y[1], x[2] * y[2])
FracDiv(x, y) == Frac(x[1] * y[2], x[2] * y[1])
FracLt(x, y) == x[1] * y[2] < y[1] * x[2]
FracLeq(x, y) == x[1] * y[2] <= y[1] * x[2]
Zero == <<0, 1>>
One == <<1, 1>>

RECURSIVE SumSeq(_)
SumSeq(s) == IF s = << >> THEN 0 ELSE Head(s) + SumSeq(Tail(s))

\* --------------------------------------------------- dist_calculator.py
\* text.lower()
Lower(w) == CASE w = "The" -> "the" [] w = "Cats" -> "cats" [] OTHER -> w

\* stemmer.stem(item)
Stem(w) == CASE w = "cats" -> "cat" [] OTHER -> w

\* normalize(text): lower-case, tokenize, stem.
normalize(text) == [i \in DOMAIN text |-> Stem(Lower(text[i]))]

\* stop_words='english', cut to the stop words the modelled texts use.
StopWords == {"the"}

\* The terms TfidfVectorizer keeps of one document.
Terms(text) == {normalize(text)[i] : i \in DOMAIN text} \ StopWords

\* Term frequency of t in text.
Tf(text, t) == Cardinality({i \in DOMAIN text : normalize(text)[i] = t})

\* Smoothed idf over the two documents of the call, in tenths:
\* ln((1 + 2) / (1 + df)) + 1 is 1.0 for df = 2 and 1.405 for df = 1.
Idf(d1, d2, t) == IF t \in Terms(d1) /\ t \in Terms(d2) THEN 10 ELSE 14

Weight(d, d1, d2, t) == Tf(d, t) * Idf(d1, d2, t)

RECURSIVE SumOver(_, _)
SumOver(S, f) ==
    IF S = {} THEN 0
    ELSE LET t == CHOOSE x \in S : TRUE IN f[t] + SumOver(S \ {t}, f)

\* tfidf * tfidf.T at [0][1]: the cosine of the two l2-normalised rows, in
\* 1/Scale units.  A row without terms stays the zero vector.
Similarity(d1, d2) ==
    LET V == Terms(d1) \cup Terms(d2)
        dot == SumOver(V, [t \in V |-> Weight(d1, d1, d2, t) * Weight(d2, d1, d2, t)])
        n1 == SumOver(V, [t \in V |-> Weight(d1, d1, d2, t) * Weight(d1, d1, d2, t)])
        n2 == SumOver(V, [t \in V |-> Weight(d2, d1, d2, t) * Weight(d2, d1, d2, t)])
    IN IF n1 = 0 \/ n2 = 0 THEN 0
       ELSE LET lo == IF n1 < n2 THEN n1 ELSE n2
                hi == IF n1 < n2 THEN n2 ELSE n1
                root == CHOOSE r \in lo..hi : r * r <= n1 * n2 /\ (r + 1) * (r + 1) > n1 * n2
            IN (dot * Scale) \div root

\* DistCalculator.document_distance(d1, d2)
document_distance(d1, d2) ==
    IF d1 = << >> \/ d2 = << >> THEN None
    ELSE IF Terms(d1) \cup Terms(d2) = {} THEN None
    ELSE LET distance == Scale - Similarity(d1, d2)
         IN IF distance < 0 \/ distance > Scale THEN None ELSE Some(distance)

\* The document maps a caller holds.  Each index has one of the texts of
\* Texts or no usable text; an index without one is, in turn, missing from
\* the map, mapped to None (or numpy.nan) and mapped to ''.
Texts == {<<"The">>, <<"cat">>, <<"Cats", "qubit">>}
Absent == << >>
DocMapOf(c) ==
    [i \in {k \in Idx : ~(c[k] = Absent /\ k % 3 = 1)} |->
        IF c[i] # Absent THEN Some(c[i])
        ELSE IF i % 3 = 2 THEN None ELSE Some(<< >>)]
DocMaps == {DocMapOf(c) : c \in [Idx -> Texts \cup {Absent}]}

\* The texts _get_document_text can return, and the engine's answer for each
\* two of them, tabulated: document_distance is a function of its two texts.
DocTexts == {<< >>} \cup Texts
DistanceOf == [d1 \in DocTexts, d2 \in DocTexts |-> document_distance(d1, d2)]

\* ------------------------------------------------- contrib_calculator.py
\* A Python dict is a function on its keys.
EmptyDict == << >>
DictSet(d, k, v) == [x \in (DOMAIN d) \cup {k} |-> IF x = k THEN v ELSE d[x]]

\* The test of lines 88-89: pair[0] in calculated_distances and pair[1] in
\* calculated_distances[pair[0]].
InCache(cd, x, y) == x \in DOMAIN cd /\ y \in DOMAIN cd[x]

\* ContribCalculator._get_document_text(doc_map, idx)
_get_document_text(doc_map, idx) ==
    IF idx \notin DOMAIN doc_map THEN << >>
    ELSE LET doc_text == doc_map[idx]
         IN IF doc_text = None THEN << >> ELSE doc_text[1]

\* Mutant of _add_distance: line 67 forgotten, the distance is stored under
\* one ordering only.
_add_distance_one_way(cd, idx1, idx2, distance) ==
    LET c1 == IF idx1 \notin DOMAIN cd THEN DictSet(cd, idx1, EmptyDict) ELSE cd
        c2 == IF idx2 \notin DOMAIN c1 THEN DictSet(c1, idx2, EmptyDict) ELSE c1
    IN DictSet(c2, idx1, DictSet(c2[idx1], idx2, distance))

\* Mutant of _add_distance: the tests of lines 62 and 64 forgotten, the inner
\* maps are created anew at every store.
_add_distance_reset(cd, idx1, idx2, distance) ==
    LET c1 == DictSet(cd, idx1, EmptyDict)
        c2 == DictSet(c1, idx2, EmptyDict)
        c3 == DictSet(c2, idx1, DictSet(c2[idx1], idx2, distance))
    IN DictSet(c3, idx2, DictSet(c3[idx2], idx1, distance))

\* ContribCalculator._add_distance(idx1, idx2, distance), run without
\* interruption: the cache it leaves.
_add_distance(cd, idx1, idx2, distance) ==
    LET c1 == IF idx1 \notin DOMAIN cd THEN DictSet(cd, idx1, EmptyDict) ELSE cd
        c2 == IF idx2 \notin DOMAIN c1 THEN DictSet(c1, idx2, EmptyDict) ELSE c1
        c3 == DictSet(c2, idx1, DictSet(c2[idx1], idx2, distance))
        c4 == DictSet(c3, idx2, DictSet(c3[idx2], idx1, distance))
    IN c4

\* The unordered pairs of indices, and the engine's record of each: how
\* often document_distance returned a distance for it (counted up to
\* EngineCallCap) and the first distance it returned.
UPairs == {{x, y} : x, y \in Idx} \ {{x} : x \in Idx}
NoCalls == [p \in UPairs |-> [n |-> 0, first |-> None]]
CountCall(calls, x, y, dist) ==
    [calls EXCEPT ![{x, y}] =
        [n |-> IF @.n < EngineCallCap THEN @.n + 1 ELSE @.n,
         first |-> IF @.n = 0 THEN Some(dist) ELSE @.first]]

\* [[x, y] for x in indices_a for y in indices_b]
PairList(indices_a, indices_b) ==
    [k \in 1..(Len(indices_a) * Len(indices_b)) |->
        <<indices_a[((k - 1) \div Len(indices_b)) + 1],
          indices_b[((k - 1) % Len(indices_b)) + 1]>>]

\* Mutant of PairStep: line 101 forgotten, a computed distance is not stored.
PairStep_no_store(st, pair, idx_text_map) ==
    IF pair[1] = pair[2]
    THEN [st EXCEPT !.log = Append(@, <<pair[1], pair[2], "identical", None>>)]
    ELSE IF InCache(st.cd, pair[1], pair[2])
    THEN LET dist == st.cd[pair[1]][pair[2]]
         IN [st EXCEPT !.distances = Append(@, dist),
                       !.log = Append(@, <<pair[1], pair[2], "reuse", Some(dist)>>)]
    ELSE LET d1 == _get_document_text(idx_text_map, pair[1])
             d2 == _get_document_text(idx_text_map, pair[2])
             dist == DistanceOf[d1, d2]
         IN IF dist # None
            THEN [cd |-> st.cd,
                  distances |-> Append(st.distances, dist[1]),
                  calls |-> CountCall(st.calls, pair[1], pair[2], dist[1]),
                  log |-> Append(st.log, <<pair[1], pair[2], "calc", dist>>)]
            ELSE [st EXCEPT !.log = Append(@, <<pair[1], pair[2], "calc", None>>)]

\* Mutant of PairStep: the test of line 99 forgotten, a distance of None is
\* appended as 0.
PairStep_none_as_zero(st, pair, idx_text_map) ==
    IF pair[1] = pair[2]
    THEN [st EXCEPT !.log = Append(@, <<pair[1], pair[2], "identical", None>>)]
    ELSE IF InCache(st.cd, pair[1], pair[2])
    THEN LET dist == st.cd[pair[1]][pair[2]]
         IN [st EXCEPT !.distances = Append(@, dist),
                       !.log = Append(@, <<pair[1], pair[2], "reuse", Some(dist)>>)]
    ELSE LET d1 == _get_document_text(idx_text_map, pair[1])
             d2 == _get_document_text(idx_text_map, pair[2])
             dist == DistanceOf[d1, d2]
         IN IF dist # None
            THEN [cd |-> _add_distance(st.cd, pair[1], pair[2], dist[1]),
                  distances |-> Append(st.distances, dist[1]),
                  calls |-> CountCall(st.calls, pair[1], pair[2], dist[1]),
                  log |-> Append(st.log, <<pair[1], pair[2], "calc", dist>>)]
            ELSE [st EXCEPT !.distances = Append(@, 0),
                            !.log = Append(@, <<pair[1], pair[2], "calc", None>>)]

\* One iteration of the loop of _pairwise_distances (lines 84-101) on the
\* running state st = [cd, distances, calls, log].  log holds one entry per
\* iteration: the pair, which logger branch it took ("identical", line 86;
\* "reuse", line 91; "calc", line 94) and the distance it found.
PairStep(st, pair, idx_text_map) ==
    IF pair[1] = pair[2]
    THEN [st EXCEPT !.log = Append(@, <<pair[1], pair[2], "identical", None>>)]
    ELSE IF InCache(st.cd, pair[1], pair[2])
    THEN LET dist == st.cd[pair[1]][pair[2]]
         IN [st EXCEPT !.distances = Append(@, dist),
                       !.log = Append(@, <<pair[1], pair[2], "reuse", Some(dist)>>)]
    ELSE LET d1 == _get_document_text(idx_text_map, pair[1])
             d2 == _get_document_text(idx_text_map, pair[2])
             dist == DistanceOf[d1, d2]
         IN IF dist # None
            THEN [cd |-> _add_distance(st.cd, pair[1], pair[2], dist[1]),
                  distances |-> Append(st.distances, dist[1]),
                  calls |-> CountCall(st.calls, pair[1], pair[2], dist[1]),
                  log |-> Append(st.log, <<pair[1], pair[2], "calc", dist>>)]
            ELSE [st EXCEPT !.log = Append(@, <<pair[1], pair[2], "calc", None>>)]

RECURSIVE PairLoop(_, _, _, _)
PairLoop(st, pairs, k, idx_text_map) ==
    IF k > Len(pairs) THEN st
    ELSE PairLoop(PairStep(st, pairs[k], idx_text_map), pairs, k + 1, idx_text_map)

\* ContribCalculator._pairwise_distances(indices_a, indices_b, idx_text_map)
\* from cache cd: the list it returns, the cache, the engine's record and
\* the log it leaves.
_pairwise_distances(cd, calls, log, indices_a, indices_b, idx_text_map) ==
    PairLoop([cd |-> cd, distances |-> << >>, calls |-> calls, log |-> log],
             PairList(indices_a, indices_b), 1, idx_text_map)

\* Lines 113-119 of _mean_distance on what _pairwise_distances left: the
\* mean of the list, None for an empty list.
MeanOf(st) ==
    [cd |-> st.cd, calls |-> st.calls, log |-> st.log, distances |-> st.distances,
     mean |-> IF Len(st.distances) = 0 THEN None
              ELSE Frac(SumSeq(st.distances), Len(st.distances) * Scale)]

\* ContribCalculator._mean_distance(indices_a, indices_b, docs): the state
\* _pairwise_distances leaves, with the mean.
_mean_distance(cd, calls, log, indices_a, indices_b, docs) ==
    MeanOf(_pairwise_distances(cd, calls, log, indices_a, indices_b, docs))

\* The interpreters the code may run under, and how a comparison of None
\* with a number ends under each: Python 3 raises TypeError; Python 2 orders
\* None below every number, so that None <= 0 and None < 0 are true and
\* contribution returns None.
Pythons == {2, 3}
NoneComparison(py) == IF py = 3 THEN TypeError ELSE Returned

\* x <= 0 or x > 1 (line 149, per adjustment parameter) on a number.
OutsideHalfOpen(x) == FracLeq(x, Zero) \/ FracLt(One, x)
\* x < 0 or x > 1 (line 158) on a number.
OutsideClosed(x) == FracLt(x, Zero) \/ FracLt(One, x)

\* The test of lines 149-150, left to right with short circuit: "none" when
\* it compares None with a number, else whether it is true.
AdjustmentTest(overline_a, overline_b) ==
    IF overline_a = None THEN "none"
    ELSE IF OutsideHalfOpen(overline_a) THEN "true"
    ELSE IF overline_b = None THEN "none"
    ELSE IF OutsideHalfOpen(overline_b) THEN "true"
    ELSE "false"

\* The test of line 158, likewise.
MeanTest(mean_distance) ==
    IF mean_distance = None THEN "none"
    ELSE IF OutsideClosed(mean_distance) THEN "true"
    ELSE "false"

\* Line 147 after line 146 left ma: overline_b, and both parameters with the
\* state their computation leaves.
Adjusted(overline_a, mb) ==
    [overline_a |-> overline_a, overline_b |-> mb.mean,
     cd |-> mb.cd, calls |-> mb.calls, log |-> mb.log]
SecondAdjustment(ma, indices_b, docs) ==
    Adjusted(ma.mean, _mean_distance(ma.cd, ma.calls, ma.log, indices_b, indices_b, docs))

\* Lines 138-147: the adjustment parameters and the state their computation
\* leaves.
AdjustmentParameters(cd, calls, indices_a, indices_b, docs) ==
    IF Len(indices_a) = 1 \/ Len(indices_b) = 1
    THEN [overline_a |-> One, overline_b |-> One,
          cd |-> cd, calls |-> calls, log |-> << >>]
    ELSE SecondAdjustment(
             _mean_distance(cd, calls, << >>, indices_a, indices_a, docs),
             indices_b, docs)

\* What contribution returns and leaves; none_compared says that it ended in
\* a comparison of None with a number (NoneComparison gives the outcome).
Ended(none_compared, result, adj, cd, calls, log) ==
    [none_compared |-> none_compared, result |-> result,
     cd |-> cd, calls |-> calls, log |-> log,
     overline_a |-> adj.overline_a, overline_b |-> adj.overline_b]

\* Lines 158-168, with the inter-group mean m of line 156.
AfterMean(adj, m) ==
    IF MeanTest(m.mean) = "none" THEN Ended(TRUE, None, adj, m.cd, m.calls, m.log)
    ELSE IF MeanTest(m.mean) = "true" THEN Ended(FALSE, None, adj, m.cd, m.calls, m.log)
    ELSE Ended(FALSE, FracMul(FracDiv(adj.overline_b, adj.overline_a), m.mean),
               adj, m.cd, m.calls, m.log)

\* Lines 149-168, with the adjustment parameters adj of lines 138-147.
AfterAdjustment(adj, indices_a, indices_b, docs) ==
    IF AdjustmentTest(adj.overline_a, adj.overline_b) = "none"
    THEN Ended(TRUE, None, adj, adj.cd, adj.calls, adj.log)
    ELSE IF AdjustmentTest(adj.overline_a, adj.overline_b) = "true"
    THEN Ended(FALSE, None, adj, adj.cd, adj.calls, adj.log)
    ELSE AfterMean(adj, _mean_distance(adj.cd, adj.calls, adj.log,
                                       indices_a, indices_b, docs))

\* ContribCalculator.contribution(indices_a, indices_b, docs) from cache cd.
contribution(cd, calls, indices_a, indices_b, docs) ==
    IF Len(indices_a) = 0 \/ Len(indices_b) = 0
    THEN [none_compared |-> FALSE, result |-> None, cd |-> cd, calls |-> calls,
          log |-> << >>, overline_a |-> None, overline_b |-> None]
    ELSE AfterAdjustment(AdjustmentParameters(cd, calls, indices_a, indices_b, docs),
                         indices_a, indices_b, docs)

\* ---------------------------------------------------------------- state
VARIABLES
    calculated_distances,   \* self.calculated_distances
    docs,                   \* the document map the caller holds
    op,                     \* the method called last
    indices_a, indices_b,   \* its arguments
    outcome,                \* how it ended
    result,                 \* what it returned
    distances,              \* the list its last _pairwise_distances returned
    overline_a, overline_b, \* contribution's adjustment parameters
    log,                    \* the logger lines of the call, per pair
    engine_calls,           \* the engine's record per unordered pair
    th,                     \* per thread: its call's position and locals
    stored,                 \* what the threads' lines 66 and 67 have stored
    run_pc,                 \* run.py: the script's position
    rows,                   \* run.py: the rows of citations.tsv
    row_i,                  \* run.py: the rows read so far
    indices_cited,          \* run.py: its list of that name
    indices_citing          \* run.py: its list of that name

calcVars == <<calculated_distances, docs, op, indices_a, indices_b,
              outcome, result, distances, overline_a, overline_b, log,
              engine_calls>>

threadVars == <<th, stored>>
runVars == <<run_pc, rows, row_i, indices_cited, indices_citing>>

vars == <<calcVars, threadVars, runVars>>

\* No thread runs; run.py does not run.
Threads == 1..NumThreads
NoThreads ==
    /\ th = [t \in Threads |-> [pc |-> "idle", a |-> << >>, b |-> << >>, k |-> 0,
                                 dist |-> 0, distances |-> << >>]]
    /\ stored = {}
NoRun ==
    /\ run_pc = "idle"
    /\ rows = << >>
    /\ row_i = 0
    /\ indices_cited = << >>
    /\ indices_citing = << >>

\* The index lists a caller passes.
Groups == {g \in UNION {[1..n -> Idx] : n \in 0..MaxLen} :
              \A i, j \in DOMAIN g : i < j => g[i] < g[j]}

\* ContribCalculator(): the cache starts empty.
Init ==
    /\ calculated_distances = EmptyDict
    /\ docs \in DocMaps
    /\ op = "init"
    /\ indices_a = << >>
    /\ indices_b = << >>
    /\ outcome = Returned
    /\ result = None
    /\ distances = << >>
    /\ overline_a = None
    /\ overline_b = None
    /\ log = << >>
    /\ engine_calls = NoCalls
    /\ NoThreads
    /\ NoRun

\* A call of _mean_distance(a, b, docs).
MeanDistance ==
    \E a \in Groups, b \in Groups :
        \E st \in {_mean_distance(calculated_distances, engine_calls, << >>, a, b, docs)} :
           /\ calculated_distances' = st.cd
           /\ engine_calls' = st.calls
           /\ log' = st.log
           /\ distances' = st.distances
           /\ op' = "mean_distance"
           /\ indices_a' = a
           /\ indices_b' = b
           /\ outcome' = Returned
           /\ result' = st.mean
           /\ overline_a' = None
           /\ overline_b' = None
           /\ UNCHANGED <<docs, threadVars, runVars>>

\* A call of contribution(a, b, docs).
Contribution ==
    \E a \in Groups, b \in Groups :
        \E r \in {contribution(calculated_distances, engine_calls, a, b, docs)} :
           /\ calculated_distances' = r.cd
           /\ engine_calls' = r.calls
           /\ log' = r.log
           /\ distances' = << >>
           /\ op' = "contribution"
           /\ indices_a' = a
           /\ indices_b' = b
           /\ \E py \in Pythons :
                 outcome' = IF r.none_compared THEN NoneComparison(py) ELSE Returned
           /\ result' = r.result
           /\ overline_a' = r.overline_a
           /\ overline_b' = r.overline_b
           /\ UNCHANGED <<docs, threadVars, runVars>>

Next == MeanDistance \/ Contribution

Spec == Init /\ [][Next]_vars

\* ContribCalculator(distances): the cache starts as the map of
\* pre-calculated distances the caller hands over, {index1: {index2:
\* distance}}.  The maps taken here hold one pair, under one ordering or
\* under both.
OneWay(x, y, v) == [i \in {x} |-> [j \in {y} |-> v]]
TwoWay(x, y, v) == [i \in {x, y} |-> [j \in {x, y} \ {i} |-> v]]
PreCalculated ==
    {OneWay(1, 2, Scale \div 2), OneWay(2, 1, Scale \div 2), TwoWay(1, 2, Scale \div 2)}

InitSeeded ==
    /\ calculated_distances \in PreCalculated
    /\ docs \in DocMaps
    /\ op = "init"
    /\ indices_a = << >>
    /\ indices_b = << >>
    /\ outcome = Returned
    /\ result = None
    /\ distances = << >>
    /\ overline_a = None
    /\ overline_b = None
    /\ log = << >>
    /\ engine_calls = NoCalls
    /\ NoThreads
    /\ NoRun

SpecSeeded == InitSeeded /\ [][Next]_vars

\* ------------------------------------------------ concurrent invocations
\* Section 5's cross-call sharing: NumThreads invocations of contribution
\* run at once on one calculator.  Each has singleton groups, so that it is
\* one run of _pairwise_distances (line 156); the threads interleave between
\* the statements of _pairwise_distances and _add_distance, which take no
\* lock.  A step is one statement or one test on the shared map; the
\* statements on locals only are joined to the step before them.
SmallDocMaps == {DocMapOf(c) : c \in [Idx -> {<<"The">>, <<"cat">>}]}
Singletons == {g \in Groups : Len(g) = 1}

\* Lines 95-98: the engine's answer for two indices of a document map.
DocDistance(map, x, y) ==
    DistanceOf[_get_document_text(map, x), _get_document_text(map, y)]

InitThreads ==
    /\ calculated_distances = EmptyDict
    /\ docs \in SmallDocMaps
    /\ op = "init"
    /\ indices_a = << >>
    /\ indices_b = << >>
    /\ outcome = Returned
    /\ result = None
    /\ distances = << >>
    /\ overline_a = None
    /\ overline_b = None
    /\ log = << >>
    /\ engine_calls = NoCalls
    /\ th \in [Threads -> {[pc |-> "l83", a |-> a, b |-> b, k |-> 1, dist |-> 0,
                            distances |-> << >>] : a \in Singletons, b \in Singletons}]
    /\ stored = {}
    /\ NoRun

\* The pair thread t is at.
PairOf(t) == PairList(th[t].a, th[t].b)[th[t].k]

\* Lines 83-87: the next pair, if any; a pair of identical indices is skipped.
L83(t) ==
    /\ th[t].pc = "l83"
    /\ th' = [th EXCEPT ![t] =
                IF @.k > Len(PairList(@.a, @.b)) THEN [@ EXCEPT !.pc = "done"]
                ELSE IF PairOf(t)[1] = PairOf(t)[2] THEN [@ EXCEPT !.k = @ + 1]
                ELSE [@ EXCEPT !.pc = "l88"]]
    /\ UNCHANGED <<calcVars, stored, runVars>>

\* Lines 88-89: the test of the cache.
L88(t) ==
    /\ th[t].pc = "l88"
    /\ th' = [th EXCEPT ![t].pc =
                IF InCache(calculated_distances, PairOf(t)[1], PairOf(t)[2])
                THEN "l90" ELSE "l95"]
    /\ UNCHANGED <<calcVars, stored, runVars>>

\* Lines 90-92: the read of the cached distance; KeyError when the entry
\* the test saw is gone.
L90(t) ==
    /\ th[t].pc = "l90"
    /\ th' = [th EXCEPT ![t] =
                IF InCache(calculated_distances, PairOf(t)[1], PairOf(t)[2])
                THEN [@ EXCEPT !.distances =
                                  Append(@, calculated_distances[PairOf(t)[1]][PairOf(t)[2]]),
                               !.k = @ + 1, !.pc = "l83"]
                ELSE [@ EXCEPT !.pc = KeyError]]
    /\ UNCHANGED <<calcVars, stored, runVars>>

\* Lines 94-100: the texts, the engine, the test for None and the append.
L95(t) ==
    /\ th[t].pc = "l95"
    /\ \E dist \in {DocDistance(docs, PairOf(t)[1], PairOf(t)[2])} :
          th' = [th EXCEPT ![t] =
                   IF dist = None THEN [@ EXCEPT !.k = @ + 1, !.pc = "l83"]
                   ELSE [@ EXCEPT !.dist = dist[1],
                                  !.distances = Append(@, dist[1]), !.pc = "l62"]]
    /\ UNCHANGED <<calcVars, stored, runVars>>

\* Line 62: if idx1 not in self.calculated_distances
L62(t) ==
    /\ th[t].pc = "l62"
    /\ th' = [th EXCEPT ![t].pc =
                IF PairOf(t)[1] \notin DOMAIN calculated_distances THEN "l63" ELSE "l64"]
    /\ UNCHANGED <<calcVars, stored, runVars>>

\* Line 63: self.calculated_distances[idx1] = {}
L63(t) ==
    /\ th[t].pc = "l63"
    /\ calculated_distances' = DictSet(calculated_distances, PairOf(t)[1], EmptyDict)
    /\ th' = [th EXCEPT ![t].pc = "l64"]
    /\ UNCHANGED <<docs, op, indices_a, indices_b, outcome, result, distances,
                   overline_a, overline_b, log, engine_calls, stored, runVars>>

\* Line 64: if idx2 not in self.calculated_distances
L64(t) ==
    /\ th[t].pc = "l64"
    /\ th' = [th EXCEPT ![t].pc =
                IF PairOf(t)[2] \notin DOMAIN calculated_distances THEN "l65" ELSE "l66"]
    /\ UNCHANGED <<calcVars, stored, runVars>>

\* Line 65: self.calculated_distances[idx2] = {}
L65(t) ==
    /\ th[t].pc = "l65"
    /\ calculated_distances' = DictSet(calculated_distances, PairOf(t)[2], EmptyDict)
    /\ th' = [th EXCEPT ![t].pc = "l66"]
    /\ UNCHANGED <<docs, op, indices_a, indices_b, outcome, result, distances,
                   overline_a, overline_b, log, engine_calls, stored, runVars>>

\* Line 66: self.calculated_distances[idx1][idx2] = distance
L66(t) ==
    /\ th[t].pc = "l66"
    /\ calculated_distances' =
          DictSet(calculated_distances, PairOf(t)[1],
                  DictSet(calculated_distances[PairOf(t)[1]], PairOf(t)[2], th[t].dist))
    /\ stored' = stored \cup {<<PairOf(t)[1], PairOf(t)[2], th[t].dist>>}
    /\ th' = [th EXCEPT ![t].pc = "l67"]
    /\ UNCHANGED <<docs, op, indices_a, indices_b, outcome, result, distances,
                   overline_a, overline_b, log, engine_calls, runVars>>

\* Line 67: self.calculated_distances[idx2][idx1] = distance, and the loop
\* goes on.
L67(t) ==
    /\ th[t].pc = "l67"
    /\ calculated_distances' =
          DictSet(calculated_distances, PairOf(t)[2],
                  DictSet(calculated_distances[PairOf(t)[2]], PairOf(t)[1], th[t].dist))
    /\ stored' = stored \cup {<<PairOf(t)[2], PairOf(t)[1], th[t].dist>>}
    /\ th' = [th EXCEPT ![t].k = @ + 1, ![t].pc = "l83"]
    /\ UNCHANGED <<docs, op, indices_a, indices_b, outcome, result, distances,
                   overline_a, overline_b, log, engine_calls, runVars>>

NextThreads ==
    \E t \in Threads :
        \/ L83(t) \/ L88(t) \/ L90(t) \/ L95(t)
        \/ L62(t) \/ L63(t) \/ L64(t) \/ L65(t) \/ L66(t) \/ L67(t)

SpecThreads == InitThreads /\ [][NextThreads]_vars

\* ----------------------------------------------------------------- run.py
\* doc_id: the document whose contribution run.py computes.
doc_id == 27

\* The rows of citations.tsv: (source index, target index), over the indices
\* and doc_id.
RowValues == (Idx \cup {doc_id}) \X (Idx \cup {doc_id})
RowLists == UNION {[1..n -> RowValues] : n \in 0..MaxRows}

\* Lines 41-57: the script has loaded the documents and opened the rows.
InitRun ==
    /\ calculated_distances = EmptyDict
    /\ docs \in SmallDocMaps
    /\ op = "init"
    /\ indices_a = << >>
    /\ indices_b = << >>
    /\ outcome = Returned
    /\ result = None
    /\ distances = << >>
    /\ overline_a = None
    /\ overline_b = None
    /\ log = << >>
    /\ engine_calls = NoCalls
    /\ NoThreads
    /\ run_pc = "rows"
    /\ rows \in RowLists
    /\ row_i = 0
    /\ indices_cited = << >>
    /\ indices_citing = << >>

\* Lines 59-63: one row of the loop over the citation network.
ReadRow ==
    /\ run_pc = "rows"
    /\ row_i < Len(rows)
    /\ row_i' = row_i + 1
    /\ IF rows[row_i + 1][1] = doc_id
       THEN /\ indices_cited' = Append(indices_cited, rows[row_i + 1][2])
            /\ UNCHANGED indices_citing
       ELSE IF rows[row_i + 1][2] = doc_id
       THEN /\ indices_citing' = Append(indices_citing, rows[row_i + 1][1])
            /\ UNCHANGED indices_cited
       ELSE UNCHANGED <<indices_cited, indices_citing>>
    /\ UNCHANGED <<calcVars, threadVars, run_pc, rows>>

\* Lines 65-68: ContribCalculator().contribution(indices_a=indices_cited,
\* indices_b=indices_citing, docs=documents).
CallContribution ==
    /\ run_pc = "rows"
    /\ row_i = Len(rows)
    /\ \E r \in {contribution(EmptyDict, NoCalls, indices_cited, indices_citing, docs)} :
          /\ calculated_distances' = r.cd
          /\ engine_calls' = r.calls
          /\ log' = r.log
          /\ distances' = << >>
          /\ op' = "contribution"
          /\ indices_a' = indices_cited
          /\ indices_b' = indices_citing
          /\ \E py \in Pythons :
                outcome' = IF r.none_compared THEN NoneComparison(py) ELSE Returned
          /\ result' = r.result
          /\ overline_a' = r.overline_a
          /\ overline_b' = r.overline_b
    /\ run_pc' = "called"
    /\ UNCHANGED <<docs, threadVars, rows, row_i, indices_cited, indices_citing>>

NextRun == ReadRow \/ CallContribution

SpecRun == InitRun /\ [][NextRun]_vars

\* ------------------------------------------------------------ properties
\* What section 4.3 asks of pairwise_distances: the distances, in order, of
\* the pairs of different indices for which the engine has one.
RefDistances(a, b, map) ==
    LET usable == SelectSeq(PairList(a, b),
                     LAMBDA p : p[1] # p[2] /\ DocDistance(map, p[1], p[2]) # None)
    IN [k \in DOMAIN usable |-> DocDistance(map, usable[k][1], usable[k][2])[1]]

\* What section 4.3 asks of mean_distance.
RefMean(a, b, map) ==
    LET ds == RefDistances(a, b, map)
    IN IF ds = << >> THEN None ELSE Frac(SumSeq(ds), Len(ds) * Scale)

\* The cache holds every pair under both orderings, with one value.
CacheSymmetric(cd) ==
    \A x, y \in Idx : InCache(cd, x, y) => InCache(cd, y, x) /\ cd[y][x] = cd[x][y]
NoSelfPair(cd) == \A x \in Idx : ~InCache(cd, x, x)

\* C1: contribution never raises: whenever an intra-group or the inter-group
\* mean is unavailable, the call returns None (undefined).
C1_NeverRaises ==
    op = "contribution" => outcome = Returned

\* C2: a group of exactly one member gets adjustment parameter 1 and a group
\* of two or more gets its intra-group mean: for |indices_a| >= 2 and
\* |indices_b| = 1, overline_a is mean_distance(indices_a, indices_a, docs),
\* overline_b is 1 and the result is (1 / overline_a) * mean_distance(
\* indices_a, indices_b, docs).  Stated where both means are valid.
C2_SingletonAdjustsOnlyItsGroup ==
    (/\ op = "contribution"
     /\ Len(indices_a) >= 2
     /\ Len(indices_b) = 1
     /\ RefMean(indices_a, indices_a, docs) # None
     /\ ~OutsideHalfOpen(RefMean(indices_a, indices_a, docs))
     /\ RefMean(indices_a, indices_b, docs) # None)
        => /\ overline_a = RefMean(indices_a, indices_a, docs)
           /\ overline_b = One
           /\ result = FracMul(FracDiv(One, RefMean(indices_a, indices_a, docs)),
                               RefMean(indices_a, indices_b, docs))

\* C4: from an empty cache, after any calls, the cache is symmetric and holds
\* no self-pair.
C4_CacheSymmetricNoSelfPair ==
    CacheSymmetric(calculated_distances) /\ NoSelfPair(calculated_distances)

\* C4's case: a call on identical groups of two has filled the cache.
C4_Witness ==
    /\ op = "contribution"
    /\ indices_a = indices_b
    /\ Len(indices_a) = 2
    /\ InCache(calculated_distances, indices_a[1], indices_a[2])

\* C5: the engine returns a distance at most once per unordered pair; from
\* then on the cache holds that distance under both orderings, and every
\* resolution of the pair in a call gives that distance.
C5_CacheIdempotence ==
    \A p \in UPairs :
        /\ engine_calls[p].n <= 1
        /\ engine_calls[p].n = 1 =>
              /\ \A x, y \in p : x # y =>
                    /\ InCache(calculated_distances, x, y)
                    /\ Some(calculated_distances[x][y]) = engine_calls[p].first
              /\ \A i \in DOMAIN log :
                    ({log[i][1], log[i][2]} = p) => log[i][4] = engine_calls[p].first

\* C5's case: a call resolved from the cache, under the opposite ordering, a
\* pair the engine had computed.
C5_Witness ==
    \E i \in DOMAIN log :
        /\ log[i][3] = "reuse"
        /\ log[i][1] > log[i][2]
        /\ engine_calls[{log[i][1], log[i][2]}].n = 1
        /\ \A j \in DOMAIN log : {log[j][1], log[j][2]} = {log[i][1], log[i][2]}
                                    => log[j][3] = "reuse"

\* C8: a pair for which the engine has no distance adds no element to the
\* list of pairwise_distances and is not stored in the cache, and
\* mean_distance is the mean over the other pairs.
C8_UnavailableSkipped ==
    /\ op = "mean_distance" =>
          /\ distances = RefDistances(indices_a, indices_b, docs)
          /\ result = RefMean(indices_a, indices_b, docs)
    /\ \A x, y \in Idx :
          (x # y /\ DocDistance(docs, x, y) = None)
              => ~InCache(calculated_distances, x, y)

\* C8's case: a call met a pair with an index missing from the document map,
\* and a pair with a distance.
C8_Witness ==
    /\ op = "mean_distance"
    /\ distances # << >>
    /\ \E i \in DOMAIN log :
          /\ log[i][3] = "calc"
          /\ log[i][4] = None
          /\ log[i][1] \notin DOMAIN docs

C3_LookupOrderIndependent ==
    [][\A i \in DOMAIN log' :
          log'[i][3] = "calc"
             => ~InCache(calculated_distances, log'[i][2], log'[i][1])]_vars

\* Every thread has returned or raised.
AllFinished == \A t \in Threads : th[t].pc \in {"done", KeyError}

\* C6: with concurrent invocations on one cache, a reader never sees a
\* partially written entry: at every point a pair visible under one
\* ordering is visible, with the same value, under the other.
C6_NoPartialEntry ==
    CacheSymmetric(calculated_distances)

\* C7: concurrent writers do not corrupt the cache: once all invocations
\* have finished, every distance any of them stored is present, with its
\* value, under both orderings.
C7_NoStoredEntryLost ==
    AllFinished =>
        \A e \in stored :
            /\ InCache(calculated_distances, e[1], e[2])
            /\ calculated_distances[e[1]][e[2]] = e[3]
            /\ InCache(calculated_distances, e[2], e[1])
            /\ calculated_distances[e[2]][e[1]] = e[3]

\* The documents citing doc_id (the sources of the rows whose target it is)
\* and the documents it cites (the targets of the rows whose source it is).
Citing(rs) ==
    LET hit == SelectSeq(rs, LAMBDA r : r[2] = doc_id)
    IN [k \in DOMAIN hit |-> hit[k][1]]
Cited(rs) ==
    LET hit == SelectSeq(rs, LAMBDA r : r[1] = doc_id)
    IN [k \in DOMAIN hit |-> hit[k][2]]

\* C10: the orchestration passes the documents citing the target document
\* as indices_a and the documents it cites as indices_b.
C10_CitingIsIndicesA ==
    run_pc = "called" => indices_a = Citing(rows) /\ indices_b = Cited(rows)

====
